---- MODULE Spec2Model ----
(***************************************************************************)
(* Model of objectdetails.py: the column-aligned table printer             *)
(* (print_table), the introspection probes (print_type,                    *)
(* print_documentation, print_attributes, print_methods) and the report    *)
(* assembly (print_section, print_title, print_object_details).            *)
(*                                                                         *)
(* A Python str is a sequence of one-character strings.  The standard      *)
(* output is the sequence `out' of the lines printed so far.  An exception *)
(* that nothing catches ends the call: err holds its type and pc = "error".*)
(***************************************************************************)
EXTENDS Integers, Sequences, FiniteSets

VARIABLES
    pc,             \* position in the running call
    op,             \* the function called from the top level
    obj,            \* the object under inspection
    text,           \* str(obj), as print_title reads it
    rows,           \* print_table: the rows argument
    column_headers, \* print_table: the *column_headers argument
    column_widths,  \* print_table: local column_widths (the format_spec)
    i,              \* print_table: index of the next row of the for loop
    tstart,         \* number of lines on the output when print_table was entered
    sec,            \* print_object_details: the section being printed (1..4)
    kept_attributes,\* print_attributes: local attributes_excluding_methods
    kept_methods,   \* print_methods: local names_of_methods
    ran,            \* the probes among print_attributes, print_methods entered so far
    out,            \* lines written to the standard output
    err             \* type of the exception raised, "None" while there is none

vars == <<pc, op, obj, text, rows, column_headers, column_widths, i, tstart, sec,
          kept_attributes, kept_methods, ran, out, err>>

----------------------------------------------------------------------------
(* Bounds of the model *)

MaxRows == 2

MaxCols == 2

MaxMembers == 2

MaxStrLen == 121

(* Program constant *)
DEFAULT_LENGTH == 140

----------------------------------------------------------------------------
(* Strings *)

\* c * n: the empty string when n <= 0, as in Python
Rep(c, n) == [k \in 1..n |-> c]

Str2(a, b) == <<a, b>>

RECURSIVE Join(_, _)
\* sep.join(segs)
Join(segs, sep) ==
    IF Len(segs) = 0 THEN <<>>
    ELSE IF Len(segs) = 1 THEN segs[1]
    ELSE segs[1] \o sep \o Join(Tail(segs), sep)

Max(S) == CHOOSE x \in S : \A y \in S : y <= x

Min(S) == CHOOSE x \in S : \A y \in S : x <= y

----------------------------------------------------------------------------
(* Inputs *)

\* the cells a row may hold and the headers a call may pass
Cells == {<<>>, <<"a", "a">>}

HeaderCells == {<<>>, <<"h">>}

SeqsUpTo(S, n) == UNION {[1..k -> S] : k \in 0..n}

\* a row has any number of cells up to MaxCols: rows of one call need not agree
RowInputs == SeqsUpTo(SeqsUpTo(Cells, MaxCols), MaxRows)

HeaderInputs == SeqsUpTo(HeaderCells, MaxCols)

\* str(obj) of the objects print_title is given
TextInputs == {Rep("s", n) : n \in 0..MaxStrLen}

\* dir(obj): member names "m", "mm", ...
Names == {Rep("m", k) : k \in 1..MaxMembers}

\* an optional string: <<>> is None, <<s>> is the string s
None == <<>>

Some(s) == <<s>>

Docs == {None, Some(<<>>), Some(<<"d", "\n", "e">>), Some(<<"\n", "e">>)}

\* what getattr(obj, name) resolves to: a data attribute, or a callable with or
\* without a __name__, whose signature inspect.signature gives or refuses
DataMembers == [callable : {FALSE}, has_name : {FALSE}, sig : {"none"}, doc : {None}]

CallableMembers ==
    [callable : {TRUE}, has_name : BOOLEAN, sig : {"ok", "ValueError"}, doc : Docs]

Members == DataMembers \cup CallableMembers

\* an object: its members by name, and its own documentation
Objects == UNION {[members : [D -> Members], doc : {None, Some(<<"d">>)}] : D \in SUBSET Names}

NoObject == [members |-> <<>>, doc |-> None]

----------------------------------------------------------------------------
(* print_table *)

\* ArityCheck counting the rows where it should count the cells of rows[0]
ArityCheck_rows(rs, hs) ==
    IF Len(rs) = 0 THEN "IndexError"
    ELSE IF Len(hs) # Len(rs) THEN "TypeError"
    ELSE "None"

\* the arity check of print_table: the exception it raises, or "None"
ArityCheck(rs, hs) ==
    IF Len(rs) = 0 THEN "IndexError"                 \* rows[0] of an empty list
    ELSE IF Len(hs) # Len(rs[1]) THEN "TypeError"
    ELSE "None"

\* itertools.chain([column_headers], rows)
RowsWithHeaders(rs, hs) == <<hs>> \o rs

\* zip(*rows_with_headers): one column per index every row has
ColumnsOfRows(rs, hs) ==
    LET all == RowsWithHeaders(rs, hs)
        n   == Min({Len(all[r]) : r \in 1..Len(all)})
    IN  [j \in 1..n |-> [r \in 1..Len(all) |-> all[r][j]]]

\* [max(map(len, column)) for column in columns_of_rows]
ColumnWidths(rs, hs) ==
    LET cols == ColumnsOfRows(rs, hs)
    IN  [j \in 1..Len(cols) |-> Max({Len(cols[j][r]) : r \in 1..Len(cols[j])})]

\* FormatField with the format '{:>w}': right-justified
FormatField_rjust(s, w) == Rep(" ", w - Len(s)) \o s

\* format(s, str(w)) of a str: left-justified, padded with spaces to w
FormatField(s, w) == s \o Rep(" ", w - Len(s))

\* ' '.join('{:w}' ...).format(*args): the arguments beyond the fields are ignored
FormatLine(widths, args) ==
    Join([j \in 1..Len(widths) |-> FormatField(args[j], widths[j])], <<" ">>)

\* ('-' * width for width in column_widths)
Rules(widths) == [j \in 1..Len(widths) |-> Rep("-", widths[j])]

\* print_table_check run after the header line is printed
print_table_check_late ==
    /\ pc = "print_table"
    /\ LET e == ArityCheck(rows, column_headers)
       IN  /\ err' = e
           /\ pc' = IF e = "None" THEN "rules" ELSE "error"
    /\ tstart' = Len(out)
    /\ LET w == ColumnWidths(rows, column_headers)
       IN  /\ column_widths' = w
           /\ out' = Append(out, FormatLine(w, column_headers))
    /\ UNCHANGED <<op, obj, text, rows, column_headers, i, sec,
                   kept_attributes, kept_methods, ran>>

\* lines 35-39: the arity check
print_table_check ==
    /\ pc = "print_table"
    /\ LET e == ArityCheck(rows, column_headers)
       IN  /\ err' = e
           /\ pc' = IF e = "None" THEN "format_spec" ELSE "error"
    /\ tstart' = Len(out)
    /\ UNCHANGED <<op, obj, text, rows, column_headers, column_widths, i, sec,
                   kept_attributes, kept_methods, ran, out>>

\* lines 41-46: the widths, the format and the header line
print_table_header ==
    /\ pc = "format_spec"
    /\ LET w == ColumnWidths(rows, column_headers)
       IN  /\ column_widths' = w
           /\ out' = Append(out, FormatLine(w, column_headers))
    /\ pc' = "rules"
    /\ UNCHANGED <<op, obj, text, rows, column_headers, i, tstart, sec,
                   kept_attributes, kept_methods, ran, err>>

\* lines 47-48: the rule line
print_table_rules ==
    /\ pc = "rules"
    /\ out' = Append(out, FormatLine(column_widths, Rules(column_widths)))
    /\ i' = 1
    /\ pc' = IF Len(rows) = 0 THEN "return" ELSE "for_row"
    /\ UNCHANGED <<op, obj, text, rows, column_headers, column_widths, tstart, sec,
                   kept_attributes, kept_methods, ran, err>>

\* lines 50-51: one turn of the loop over the rows
print_table_row ==
    /\ pc = "for_row"
    /\ out' = Append(out, FormatLine(column_widths, rows[i]))
    /\ i' = i + 1
    /\ pc' = IF i = Len(rows) THEN "return" ELSE "for_row"
    /\ UNCHANGED <<op, obj, text, rows, column_headers, column_widths, tstart, sec,
                   kept_attributes, kept_methods, ran, err>>

----------------------------------------------------------------------------
(* full_signature, brief_documentation *)

\* str(inspect.signature(method)) of a method whose signature is available
SignatureText == <<"(", ")">>

Ellipsis == <<" ", "(", ".", ".", ".", ")">>

\* method.__name__ + " " + str(inspect.signature(method)); the ValueError of
\* inspect.signature is caught, the AttributeError of method.__name__ is not.
\* name is the __name__ of a method that has one: the name it is a member under
full_signature(name, method) ==
    IF ~method.has_name THEN [err |-> "AttributeError", value |-> <<>>]
    ELSE IF method.sig = "ok" THEN [err |-> "None", value |-> name \o <<" ">> \o SignatureText]
    ELSE [err |-> "None", value |-> name \o Ellipsis]

\* index of the first line break of s, 0 when it has none
FirstBreak(s) ==
    IF \E k \in 1..Len(s) : s[k] = "\n"
    THEN Min({k \in 1..Len(s) : s[k] = "\n"})
    ELSE 0

RECURSIVE splitlines(_)
\* str.splitlines(): a trailing line break opens no further line
splitlines(s) ==
    IF Len(s) = 0 THEN <<>>
    ELSE LET k == FirstBreak(s)
         IN  IF k = 0 THEN <<s>>
             ELSE <<SubSeq(s, 1, k - 1)>> \o splitlines(SubSeq(s, k + 1, Len(s)))

\* the first line of method.__doc__, '' when there is none
brief_documentation(method) ==
    IF method.doc # None
    THEN LET lines == splitlines(method.doc[1])
         IN  IF Len(lines) > 0 THEN lines[1] ELSE <<>>
    ELSE <<>>

----------------------------------------------------------------------------
(* the probes *)

\* set(dir(obj))
AllAttributes(o) == DOMAIN o.members

\* set(filter(lambda n: callable(getattr(obj, n)), all_attributes))
NamesOfMethods(o) == {n \in AllAttributes(o) : o.members[n].callable}

\* AttributesExcludingMethods without the set difference
AttributesExcludingMethods_all(o) == AllAttributes(o)

\* all_attributes - names_of_methods
AttributesExcludingMethods(o) == AllAttributes(o) \ NamesOfMethods(o)

\* reprlib.repr(getattr(obj, name)) of a data attribute
ValueRepr(o, n) == <<"1">>

\* the orders in which a set may be iterated
Orders(S) == {q \in [1..Cardinality(S) -> S] : \A a, b \in DOMAIN q : a # b => q[a] # q[b]}

HeaderName == <<"N", "a", "m", "e">>

HeaderValue == <<"V", "a", "l", "u", "e">>

HeaderDescription == <<"D", "e", "s", "c", "r", "i", "p", "t", "i", "o", "n">>

\* print(f'{type(obj)}')
TypeLine == <<"<", "c", "l", "a", "s", "s", ">">>

NoneLine == <<"N", "o", "n", "e">>

\* print('=' * length)
Delimiter == Rep("=", DEFAULT_LENGTH)

SectionNames ==
    << <<"T", "y", "p", "e">>,
       <<"D", "o", "c", "u", "m", "e", "n", "t", "a", "t", "i", "o", "n">>,
       <<"A", "t", "t", "r", "i", "b", "u", "t", "e", "s">>,
       <<"M", "e", "t", "h", "o", "d", "s">> >>

SectionFunctions == <<"print_type", "print_documentation", "print_attributes", "print_methods">>

\* the line print(f'{section_name}:\n') writes before its empty line
SectionHeader(k) == SectionNames[k] \o <<":">>

\* line 87
print_type ==
    /\ pc = "print_type"
    /\ out' = Append(out, TypeLine)
    /\ pc' = "return"
    /\ UNCHANGED <<op, obj, text, rows, column_headers, column_widths, i, tstart, sec,
                   kept_attributes, kept_methods, ran, err>>

\* line 94: print(None) writes the word None
print_documentation ==
    /\ pc = "print_documentation"
    /\ out' = IF obj.doc = None THEN Append(out, NoneLine) ELSE out \o splitlines(obj.doc[1])
    /\ pc' = "return"
    /\ UNCHANGED <<op, obj, text, rows, column_headers, column_widths, i, tstart, sec,
                   kept_attributes, kept_methods, ran, err>>

\* lines 101-108: the rows of the data attributes, in the set's order, then the
\* call of print_table
print_attributes ==
    /\ pc = "print_attributes"
    /\ kept_attributes' = AttributesExcludingMethods(obj)
    /\ ran' = ran \cup {"print_attributes"}
    /\ \E q \in Orders(AttributesExcludingMethods(obj)) :
          rows' = [k \in DOMAIN q |-> <<q[k], ValueRepr(obj, q[k])>>]
    /\ column_headers' = <<HeaderName, HeaderValue>>
    /\ pc' = "print_table"
    /\ UNCHANGED <<op, obj, text, column_widths, i, tstart, sec, kept_methods, out, err>>

\* lines 115-122: the rows of the callable members, in the set's order, then the
\* call of print_table; an exception of full_signature ends the call
print_methods ==
    /\ pc = "print_methods"
    /\ kept_methods' = NamesOfMethods(obj)
    /\ ran' = ran \cup {"print_methods"}
    /\ \E q \in Orders(NamesOfMethods(obj)) :
          LET sigs == [k \in DOMAIN q |-> full_signature(q[k], obj.members[q[k]])]
          IN  IF \E k \in DOMAIN q : sigs[k].err # "None"
              THEN /\ err' = "AttributeError"
                   /\ pc' = "error"
                   /\ UNCHANGED <<rows, column_headers>>
              ELSE /\ rows' = [k \in DOMAIN q |->
                                 <<sigs[k].value, brief_documentation(obj.members[q[k]])>>]
                   /\ column_headers' = <<HeaderName, HeaderDescription>>
                   /\ pc' = "print_table"
                   /\ err' = err
    /\ UNCHANGED <<op, obj, text, column_widths, i, tstart, sec, kept_attributes, out>>

----------------------------------------------------------------------------
(* the report *)

\* f'Object "{obj.__str__()}" details'
Title(s) ==
    <<"O", "b", "j", "e", "c", "t", " ", "\"">> \o s \o
    <<"\"", " ", "d", "e", "t", "a", "i", "l", "s">>

\* (DEFAULT_LENGTH - 4 - len(title)) // 2
NumOfFillSymbols(title) == (DEFAULT_LENGTH - 4 - Len(title)) \div 2

\* FullTitle without the fill of lines 141-142
FullTitle_nofill(title) ==
    LET f == NumOfFillSymbols(title)
    IN  Rep("#", f) \o Str2(" ", " ") \o title \o Str2(" ", " ") \o Rep("#", f)

\* the banner, filled up with '#' when it is shorter than DEFAULT_LENGTH
FullTitle(title) ==
    LET f    == NumOfFillSymbols(title)
        full == Rep("#", f) \o Str2(" ", " ") \o title \o Str2(" ", " ") \o Rep("#", f)
    IN  IF Len(full) < DEFAULT_LENGTH
        THEN full \o Rep("#", DEFAULT_LENGTH - Len(full))
        ELSE full

\* lines 138-143
print_title ==
    /\ pc = "print_title"
    /\ out' = Append(out, FullTitle(Title(text)))
    /\ pc' = "return"
    /\ UNCHANGED <<op, obj, text, rows, column_headers, column_widths, i, tstart, sec,
                   kept_attributes, kept_methods, ran, err>>

\* lines 129-131: the delimiter, the header and its empty line, then the probe
print_section ==
    /\ pc = "print_section"
    /\ out' = out \o <<Delimiter, SectionHeader(sec), <<>> >>
    /\ pc' = SectionFunctions[sec]
    /\ UNCHANGED <<op, obj, text, rows, column_headers, column_widths, i, tstart, sec,
                   kept_attributes, kept_methods, ran, err>>

\* the end of a call: back in print_object_details (lines 150-153) the next
\* section follows, and after the last one the trailing delimiter
return ==
    /\ pc = "return"
    /\ IF op = "print_object_details"
       THEN IF sec < Len(SectionNames)
            THEN sec' = sec + 1 /\ pc' = "print_section"
            ELSE sec' = sec /\ pc' = "print_section_delimiter"
       ELSE sec' = sec /\ pc' = "done"
    /\ UNCHANGED <<op, obj, text, rows, column_headers, column_widths, i, tstart,
                   kept_attributes, kept_methods, ran, out, err>>

\* line 154
print_section_delimiter ==
    /\ pc = "print_section_delimiter"
    /\ out' = Append(out, Delimiter)
    /\ pc' = "done"
    /\ UNCHANGED <<op, obj, text, rows, column_headers, column_widths, i, tstart, sec,
                   kept_attributes, kept_methods, ran, err>>

----------------------------------------------------------------------------
(* the calls from the top level *)

call_print_table ==
    /\ pc = "idle"
    /\ \E rs \in RowInputs, hs \in HeaderInputs :
          rows' = rs /\ column_headers' = hs
    /\ op' = "print_table"
    /\ pc' = "print_table"
    /\ UNCHANGED <<obj, text, column_widths, i, tstart, sec, kept_attributes,
                   kept_methods, ran, out, err>>

call_print_title ==
    /\ pc = "idle"
    /\ \E s \in TextInputs : text' = s
    /\ op' = "print_title"
    /\ pc' = "print_title"
    /\ UNCHANGED <<obj, rows, column_headers, column_widths, i, tstart, sec,
                   kept_attributes, kept_methods, ran, out, err>>

call_print_attributes ==
    /\ pc = "idle"
    /\ \E o \in Objects : obj' = o
    /\ op' = "print_attributes"
    /\ pc' = "print_attributes"
    /\ UNCHANGED <<text, rows, column_headers, column_widths, i, tstart, sec,
                   kept_attributes, kept_methods, ran, out, err>>

call_print_methods ==
    /\ pc = "idle"
    /\ \E o \in Objects : obj' = o
    /\ op' = "print_methods"
    /\ pc' = "print_methods"
    /\ UNCHANGED <<text, rows, column_headers, column_widths, i, tstart, sec,
                   kept_attributes, kept_methods, ran, out, err>>

call_print_object_details ==
    /\ pc = "idle"
    /\ \E o \in Objects : obj' = o
    /\ op' = "print_object_details"
    /\ sec' = 1
    /\ pc' = "print_section"
    /\ UNCHANGED <<text, rows, column_headers, column_widths, i, tstart,
                   kept_attributes, kept_methods, ran, out, err>>

----------------------------------------------------------------------------

Init ==
    /\ pc = "idle"
    /\ op = "none"
    /\ obj = NoObject
    /\ text = <<>>
    /\ rows = <<>>
    /\ column_headers = <<>>
    /\ column_widths = <<>>
    /\ i = 1
    /\ tstart = 0
    /\ sec = 1
    /\ kept_attributes = {}
    /\ kept_methods = {}
    /\ ran = {}
    /\ out = <<>>
    /\ err = "None"

Next ==
    \/ call_print_table
    \/ call_print_title
    \/ call_print_attributes
    \/ call_print_methods
    \/ call_print_object_details
    \/ print_table_check
    \/ print_table_header
    \/ print_table_rules
    \/ print_table_row
    \/ print_type
    \/ print_documentation
    \/ print_attributes
    \/ print_methods
    \/ print_title
    \/ print_section
    \/ return
    \/ print_section_delimiter

Spec == Init /\ [][Next]_vars

----------------------------------------------------------------------------
(* Properties of print_table *)

RECURSIVE SumSeq(_)
SumSeq(q) == IF Len(q) = 0 THEN 0 ELSE q[1] + SumSeq(Tail(q))

\* every row has as many cells as there are headers
WellFormed == \A r \in 1..Len(rows) : Len(rows[r]) = Len(column_headers)

\* the call of print_table has returned, and nothing was printed since
TableReturned ==
    /\ pc = "return"
    /\ op \in {"print_table", "print_attributes", "print_methods", "print_object_details"}
    /\ op = "print_object_details" => sec \in {3, 4}

\* the lines the running (or just returned) call of print_table has printed
TableOut == SubSeq(out, tstart + 1, Len(out))

\* the widest of the j-th header and the j-th cell of every row
ExpectedWidth(j) ==
    Max({Len(column_headers[j])} \cup {Len(rows[r][j]) : r \in 1..Len(rows)})

ExpectedWidths == [j \in 1..Len(column_headers) |-> ExpectedWidth(j)]

\* where the j-th segment of a line starts, counted from 0
Offset(j) == SumSeq([k \in 1..(j - 1) |-> ExpectedWidth(k) + 1])

\* the cells the k-th line of a table renders: headers, rules, then the rows
CellsOfLine(k) ==
    IF k = 1 THEN column_headers
    ELSE IF k = 2 THEN [j \in 1..Len(column_headers) |-> Rep("-", ExpectedWidth(j))]
    ELSE rows[k - 2]

\* the j-th segment of the line is the cell, then spaces up to the column's
\* width, then one space unless the column is the last
SegmentOk(line, cell, j) ==
    /\ Len(cell) <= ExpectedWidth(j)
    /\ Len(line) >= Offset(j) + ExpectedWidth(j)
    /\ \A c \in 1..ExpectedWidth(j) :
          line[Offset(j) + c] = IF c <= Len(cell) THEN cell[c] ELSE " "
    /\ j < Len(column_headers) =>
          /\ Len(line) > Offset(j) + ExpectedWidth(j)
          /\ line[Offset(j) + ExpectedWidth(j) + 1] = " "

LineOk(k) ==
    \A j \in 1..Len(column_headers) : SegmentOk(TableOut[k], CellsOfLine(k)[j], j)

\* a well-formed call has printed at least its header line
PrintingWellFormed ==
    /\ WellFormed
    /\ Len(rows) > 0
    /\ pc \in {"rules", "for_row"} \/ TableReturned

\* the line a well-formed table renders for these cells
ExpectedLine(cells) ==
    Join([j \in 1..Len(column_headers) |->
            cells[j] \o Rep(" ", ExpectedWidth(j) - Len(cells[j]))], <<" ">>)

\* C1: a well-formed call of print_table, the call with no rows included, ends
\* without an error and has printed len(rows) + 2 lines: the header line, the
\* rule line, then row i on line i + 2.
C1_LinesOfTable ==
    (op = "print_table" /\ WellFormed /\ pc \in {"done", "error"}) =>
        /\ err = "None"
        /\ Len(out) = Len(rows) + 2
        /\ out[1] = ExpectedLine(CellsOfLine(1))
        /\ out[2] = ExpectedLine(CellsOfLine(2))
        /\ \A r \in 1..Len(rows) : out[r + 2] = ExpectedLine(rows[r])

\* the widths and the segments of C2, without its statement of the line length
C2_Segments ==
    /\ column_widths = ExpectedWidths
    /\ \A k \in 1..Len(TableOut) : LineOk(k)

\* C2 (as amended): in a well-formed call the width of column j is the greatest
\* length among the j-th header and the j-th cells; every printed line holds,
\* per column, the cell left-justified and padded with spaces to that width (the
\* rule: that many '-'), the segments joined by one space; so every line is
\* sum(widths) + (columns - 1) long, and 0 long when there is no column.
C2_ColumnsAligned ==
    PrintingWellFormed =>
        /\ C2_Segments
        /\ \A k \in 1..Len(TableOut) :
              Len(TableOut[k]) =
                  IF Len(column_headers) = 0 THEN 0
                  ELSE SumSeq(ExpectedWidths) + (Len(column_headers) - 1)

\* C2 (as stated): as above, with every line sum(widths) + (columns - 1) long
\* whatever the number of columns.
C2_AsStated ==
    PrintingWellFormed =>
        /\ C2_Segments
        /\ \A k \in 1..Len(TableOut) :
              Len(TableOut[k]) = SumSeq(ExpectedWidths) + (Len(column_headers) - 1)

\* a call with two columns has printed a header shorter than its column, the
\* rule and a row
C2_Witness ==
    /\ PrintingWellFormed
    /\ Len(column_headers) = 2
    /\ Len(TableOut) >= 3
    /\ \E j \in 1..2 : Len(column_headers[j]) < column_widths[j]

\* the first row of a call disagrees with the headers on the number of cells
FirstRowMismatch == Len(rows) > 0 /\ Len(rows[1]) # Len(column_headers)

\* C3: a call of print_table whose first row has another number of cells than
\* there are headers raises TypeError, and has printed no line by then.
C3_ArityMismatchRaises ==
    (FirstRowMismatch /\ pc # "idle" /\ pc # "print_table") =>
        /\ pc = "error"
        /\ err = "TypeError"
        /\ Len(out) = tstart

C3_Witness ==
    /\ FirstRowMismatch
    /\ pc = "error"
    /\ err = "TypeError"
    /\ Len(rows) = 2

\* C9: a call of print_table in which any row, the first or a later one, has
\* another number of cells than there are headers ends in an error.
C9_EveryRowChecked ==
    (op = "print_table" /\ ~WellFormed /\ pc \in {"return", "done", "error"}) =>
        pc = "error"

\* C10: a call of print_table that ends in an error has printed no line of its
\* table: the output is as long as it was when the call was entered.
C10_NoPartialTable ==
    (pc = "error" /\ err \in {"IndexError", "TypeError"}) => Len(out) = tstart

\* print_table fails inside a report, after the lines of the earlier sections
C10_Witness ==
    /\ pc = "error"
    /\ err = "IndexError"
    /\ op = "print_object_details"
    /\ Len(out) > 0

----------------------------------------------------------------------------
(* Properties of the probes and of the report *)

\* the members of the object by what getattr resolves them to
CallableNames == {n \in DOMAIN obj.members : obj.members[n].callable}

DataNames == {n \in DOMAIN obj.members : ~obj.members[n].callable}

\* C4: the names print_attributes keeps are the members that are not callable,
\* the names print_methods keeps are the callable ones; the two sets are
\* disjoint and together they are dir(obj).
C4_Partition ==
    /\ "print_attributes" \in ran =>
          /\ kept_attributes = DataNames
          /\ kept_attributes \cap NamesOfMethods(obj) = {}
          /\ kept_attributes \cup NamesOfMethods(obj) = DOMAIN obj.members
    /\ "print_methods" \in ran =>
          /\ kept_methods = CallableNames
          /\ kept_methods \cap AttributesExcludingMethods(obj) = {}
          /\ kept_methods \cup AttributesExcludingMethods(obj) = DOMAIN obj.members
    /\ ran = {"print_attributes", "print_methods"} =>
          /\ kept_attributes \cap kept_methods = {}
          /\ kept_attributes \cup kept_methods = DOMAIN obj.members

\* both probes have run on an object with a data attribute and a callable member
C4_Witness ==
    /\ ran = {"print_attributes", "print_methods"}
    /\ kept_attributes # {}
    /\ kept_methods # {}

\* the lines of the output that are delimiters, and those that are section headers
DelimiterLines == {k \in 1..Len(out) : out[k] = Delimiter}

HeaderLines == {k \in 1..Len(out) : \E n \in 1..Len(SectionNames) : out[k] = SectionHeader(n)}

\* five delimiters and four headers, each header right after a delimiter, in the
\* order Type, Documentation, Attributes, Methods, and a delimiter at the end
ReportShape ==
    /\ Cardinality(DelimiterLines) = 5
    /\ Cardinality(HeaderLines) = 4
    /\ \E p \in [1..4 -> 1..Len(out)] :
          /\ \A n \in 1..3 : p[n] < p[n + 1]
          /\ \A n \in 1..4 : out[p[n]] = Delimiter /\ out[p[n] + 1] = SectionHeader(n)
    /\ out[Len(out)] = Delimiter

\* C5: whatever the object, print_object_details ends having printed five
\* delimiter lines and the four section headers in their order, the last line
\* being the trailing delimiter.
C5_ReportComplete ==
    (op = "print_object_details" /\ pc \in {"done", "error"}) =>
        /\ pc = "done"
        /\ ReportShape

\* the length of the title print_title builds
TitleLength == Len(text) + 17

\* C6: with a title of L <= 136 characters print_title prints one line of 140
\* characters: f = (140 - 4 - L) // 2 times '#', two spaces, the title, two
\* spaces, f times '#', then 140 - (2f + 4 + L) more '#', none when L is even
\* and one when L is odd.
C6_Banner ==
    (op = "print_title" /\ pc \in {"return", "done"} /\ TitleLength <= 136) =>
        LET L == TitleLength
            f == (140 - 4 - L) \div 2
            t == 140 - (2 * f + 4 + L)
        IN  /\ Len(out) = 1
            /\ Len(out[1]) = 140
            /\ Len(Title(text)) = L
            /\ t = IF L % 2 = 0 THEN 0 ELSE 1
            /\ out[1] = Rep("#", f) \o <<" ", " ">> \o Title(text) \o <<" ", " ">>
                          \o Rep("#", f) \o Rep("#", t)

\* a title of odd length, which needs the trailing '#'
C6_Witness ==
    /\ op = "print_title"
    /\ pc = "done"
    /\ TitleLength <= 136
    /\ TitleLength % 2 = 1

\* the callable members whose signature inspect.signature refuses
Uninspectable == {n \in CallableNames : obj.members[n].sig = "ValueError"}

\* C7: once print_methods has built its rows for an object with a callable
\* member whose signature cannot be introspected, no exception has left it and
\* the member has a row whose name cell is '<name> (...)', with an empty
\* description when the member has no documentation.
C7_SignatureFallback ==
    ("print_methods" \in ran /\ Uninspectable # {}) =>
        /\ err = "None"
        /\ \A n \in Uninspectable :
              \E k \in 1..Len(rows) :
                 /\ rows[k][1] = n \o <<" ", "(", ".", ".", ".", ")">>
                 /\ obj.members[n].doc = None => rows[k][2] = <<>>

\* C8: print_attributes on an object without a data attribute, and
\* print_methods on an object without a callable member, end without an error
\* having printed the header line and the rule line only.
C8_EmptySections ==
    /\ (op = "print_attributes" /\ DataNames = {} /\ pc \in {"done", "error"}) =>
          (pc = "done" /\ err = "None" /\ Len(out) = 2)
    /\ (op = "print_methods" /\ CallableNames = {} /\ pc \in {"done", "error"}) =>
          (pc = "done" /\ err = "None" /\ Len(out) = 2)

====
